---- MODULE Spec2Model ----
(***************************************************************************)
(* Model of fluvii/consumer.py: TransactionalConsumer (batch consumption   *)
(* with offset tracking, transactional commit through an external         *)
(* producer, and rollback of the read position), on top of Consumer.       *)
(*                                                                         *)
(* A dict is a function whose DOMAIN is its key set; the nested dicts      *)
(* _batch_offset_starts / _batch_offset_ends are functions from topic to   *)
(* a function from partition to offset.  None is 0 for the batch start     *)
(* time (the clock starts at 1) and None_message for the held message.     *)
(*                                                                         *)
(* Spec runs every configuration; SpecUnbounded the configurations without *)
(* a batch window, where every poll may add to the batch; SpecWindow the   *)
(* configurations with a count bound, with the clock and without           *)
(* rebalances; SpecBatch the batch under rebalances; SpecRestart the       *)
(* process dying between and inside calls; SpecDeep the batch under        *)
(* rebalances with longer logs and more rebalances, for what only shows    *)
(* after several batches.                                                  *)
(*                                                                         *)
(* A call that blocks is several steps: consume waits in the client's      *)
(* poll, commit waits in each producer call it makes; the clock, the       *)
(* assignment and the process itself may change while it waits.            *)
(***************************************************************************)
EXTENDS Integers, Sequences, FiniteSets

\* ---------------------------------------------------------------- bounds
LogEnd == 2        \* every partition holds the offsets 0 .. LogEnd-1
MaxNow == 2        \* the wall clock runs over 1 .. MaxNow
MaxTimeSecs == 1   \* the value of a configured time bound
MaxCount == 1      \* the value of a configured count bound
MaxRebalances == 1 \* cap on the number of partition revocations
DeepLogEnd == 3        \* LogEnd of the deep runs
DeepRebalances == 3    \* MaxRebalances of the deep runs

Topics == {"A", "B"}
Partitions == {0}
TPs == Topics \X Partitions
Multipliers == {1, 2}
\* the log: offset 0 of topic B is a message whose headers are inaccessible
CorruptMessages == {<<"B", 0, 0>>}
ProducerCalls == {"begin_transaction", "send_offsets_to_transaction", "commit_transaction"}

VARIABLES
    \* configuration, fixed by __init__
    _consume_max_time_secs, _consume_max_count, _store_batch_messages,
    \* TransactionalConsumer / Consumer attributes
    _batch_time_elapse_start, _batch_offset_starts, _batch_offset_ends,
    _messages, _consume_message_count, message,
    \* wall clock
    now,
    \* fetch client: assignment, read position per partition, seeks issued by the last call,
    \* number of partitions revoked so far
    assignment, position, seeks, rebalances,
    \* the size of the run, fixed at the start: the number of messages every partition
    \* holds and the number of revocations that may happen
    log_end, rebalance_cap,
    \* group offsets made durable by committed transactions
    committed,
    \* producer: open transaction flag, consumer offsets attached to the open transaction
    active_transaction, txn_offsets,
    \* the last call: its name, its outcome, its arguments, what it did to the collaborators
    op, result, consume_multiplier, polled, calls,
    \* the consume call in progress: the multiplier of a call that passed the budget check
    \* and waits in poll, 0 when no call is in progress
    polling,
    \* the commit call in progress: the producer call it waits in, "" when no commit is in
    \* progress; and whether the producer had a transaction open when that commit was called
    committing, active_at_commit,
    \* history of the current batch, kept where it matters: under a time bound without a
    \* count bound, the time its first message was consumed (0: none yet); under a count
    \* bound, the multipliers of the consume calls that added a message to it
    first_message_time, multipliers_used

config == <<_consume_max_time_secs, _consume_max_count, _store_batch_messages>>
batch == <<_batch_offset_starts, _batch_offset_ends, _messages, _consume_message_count>>
client == <<assignment, position, seeks, rebalances>>
world == <<log_end, rebalance_cap>>
producer == <<active_transaction, txn_offsets>>
last == <<op, result, consume_multiplier, polled, calls>>
history == <<first_message_time, multipliers_used>>
progress == <<committing, active_at_commit>>
vars == <<config, world, _batch_time_elapse_start, batch, message, now, client, committed,
          producer, last, polling, progress, history>>

\* ------------------------------------------------------------- dict helpers
EmptyDict == [k \in {} |-> 0]
DictSet(d, k, v) == [x \in (DOMAIN d) \cup {k} |-> IF x = k THEN v ELSE d[x]]

None == 0
None_message == [topic |-> "", partition |-> -1, offset |-> -1, corrupt |-> FALSE]
Message(tp, offset, corrupt) ==
    [topic |-> tp[1], partition |-> tp[2], offset |-> offset, corrupt |-> corrupt]
TopicPartition(topic, partition, offset) ==
    [topic |-> topic, partition |-> partition, offset |-> offset]

\* the (topic, partition) pairs a nested dict tracks
Tracked(d) == {tp \in Topics \X Partitions : tp[1] \in DOMAIN d /\ tp[2] \in DOMAIN d[tp[1]]}

\* ------------------------------------------------------------ batch window
\* _max_consume_count_continue with <= for < (an off-by-one variant, to test C8 against)
_max_consume_count_continue_le(m) ==
    IF _consume_max_count # 0
        THEN _consume_message_count <= (_consume_max_count * m)
        ELSE TRUE
\* _max_consume_count_continue
_max_consume_count_continue(m) ==
    IF _consume_max_count # 0
        THEN _consume_message_count < (_consume_max_count * m)
        ELSE TRUE

\* _set_batch_start_time, as called from _max_consume_time_continue when the start is unset
_set_batch_start_time ==
    IF _batch_time_elapse_start = None THEN now ELSE _batch_time_elapse_start

\* _max_consume_time_continue: the value it returns
_max_consume_time_continue ==
    IF _consume_max_time_secs # 0
        THEN (now - _set_batch_start_time) < _consume_max_time_secs
        ELSE TRUE

\* _max_consume_time_continue: the value it leaves in _batch_time_elapse_start
time_start_after ==
    IF _consume_max_time_secs # 0
        THEN IF _max_consume_time_continue THEN _set_batch_start_time ELSE None
        ELSE _batch_time_elapse_start

\* _keep_consuming: `and` evaluates the time check only when the count check passed
_keep_consuming(m) == _max_consume_count_continue(m) /\ _max_consume_time_continue
keep_consuming_start(m) ==
    IF _max_consume_count_continue(m) THEN time_start_after ELSE _batch_time_elapse_start

\* ----------------------------------------------------------- offset tracker
\* _mark_offset_start
_mark_offset_start(starts, msg) ==
    LET s1 == IF msg.topic \notin DOMAIN starts
                  THEN DictSet(starts, msg.topic, EmptyDict) ELSE starts
    IN  IF msg.partition \notin DOMAIN s1[msg.topic]
            THEN DictSet(s1, msg.topic, DictSet(s1[msg.topic], msg.partition, msg.offset))
            ELSE s1

_mark_offset_end(ends, msg) ==
    LET e1 == IF msg.topic \notin DOMAIN ends
                  THEN DictSet(ends, msg.topic, EmptyDict) ELSE ends
    IN  DictSet(e1, msg.topic, DictSet(e1[msg.topic], msg.partition, msg.offset))

\* _get_consumer_partition_assignment: topic -> partitions of the client's assignment
_get_consumer_partition_assignment ==
    [topic \in {tp[1] : tp \in assignment} |-> {tp[2] : tp \in {a \in assignment : a[1] = topic}}]

\* assignments.get(topic, [])
assignments_get(assignments, topic) ==
    IF topic \in DOMAIN assignments THEN assignments[topic] ELSE {}

\* pending_commits read off the retained messages instead of the count
pending_commits_messages == _messages # <<>>
\* pending_commits
pending_commits == _consume_message_count # 0

\* ------------------------------------------------------- attribute lookup
\* the attributes Consumer.__init__, TransactionalConsumer.__init__ and _init_attrs set on
\* the instance
InstanceAttributes ==
    {"_urls", "_auth", "_settings", "_consumer", "_group_id", "_topic_metadata",
     "_schema_registry", "message", "metrics_manager", "topics", "_poll_timeout",
     "_batch_time_elapse_start", "_consume_max_time_secs", "_consume_max_count",
     "_store_batch_messages", "_batch_offset_starts", "_batch_offset_ends", "_messages",
     "_consume_message_count"}
\* the methods and the property of Consumer and TransactionalConsumer, and the names every
\* object has
ClassAttributes ==
    {"__init__", "__getattr__", "_consume_message_callback", "_make_config",
     "_init_consumer", "_poll_for_message", "_handle_consumed_message", "key", "value",
     "headers", "messages", "consume", "commit", "_init_attrs", "_set_batch_start_time",
     "_max_consume_time_continue", "_max_consume_count_continue", "_keep_consuming",
     "_mark_offset_start", "_mark_offset_end", "_get_consumer_partition_assignment",
     "_commit", "pending_commits", "rollback_consumption",
     "__class__", "__dict__", "__doc__", "__module__", "__weakref__",
     "__getattribute__", "__delattr__", "__dir__", "__eq__", "__format__", "__ge__",
     "__getstate__", "__gt__", "__hash__", "__init_subclass__", "__le__", "__lt__",
     "__ne__", "__new__", "__reduce__", "__reduce_ex__", "__repr__", "__setattr__",
     "__sizeof__", "__str__", "__subclasshook__"}
\* attributes found on the TransactionalConsumer instance or its class
OwnAttributes == InstanceAttributes \cup ClassAttributes
\* attributes of the wrapped confluent_kafka DeserializingConsumer
ClientAttributes ==
    {"assign", "assignment", "close", "commit", "committed", "consume",
     "consumer_group_metadata", "get_watermark_offsets", "incremental_assign",
     "incremental_unassign", "list_topics", "memberid", "offsets_for_times", "pause",
     "poll", "position", "resume", "seek", "store_offsets", "subscribe", "unassign",
     "unsubscribe"}
\* Consumer.__getattr__: the instance first, then self._consumer; FALSE is AttributeError
getattr_resolves(attr) == attr \in OwnAttributes \cup ClientAttributes

\* ----------------------------------------------------------------- commit
\* offsets_to_commit without the + 1 (a variant to test C1 against)
offsets_to_commit_same ==
    {TopicPartition(tp[1], tp[2], _batch_offset_ends[tp[1]][tp[2]]) :
        tp \in Tracked(_batch_offset_ends)}
\* commit: the offsets handed to _commit, one per tracked end offset
offsets_to_commit ==
    {TopicPartition(tp[1], tp[2], _batch_offset_ends[tp[1]][tp[2]] + 1) :
        tp \in Tracked(_batch_offset_ends)}

Call(name, offsets) == [call |-> name, offsets |-> offsets]

\* the producer's active_transaction flag once begin_transaction / commit_transaction returned
active_after_begin == TRUE
active_after_commit == FALSE

\* _commit without the test of producer.active_transaction before begin_transaction (a
\* variant to test C2 against)
_commit_always_begin(at, active, offsets) ==
    CASE at = "call" ->
             IF offsets # {} THEN "begin_transaction"
             ELSE IF active THEN "commit_transaction" ELSE "return"
      [] at = "begin_transaction" -> "send_offsets_to_transaction"
      [] at = "send_offsets_to_transaction" ->
             IF active THEN "commit_transaction" ELSE "return"
      [] at = "commit_transaction" -> "return"
\* _commit(producer, offsets), one producer call at a time: where it goes next from the
\* point at ("call" when it is entered, else the producer call that just returned), given
\* the producer's transaction flag at that point: the next producer call, or "return"
_commit(at, active, offsets) ==
    CASE at = "call" ->
             IF offsets # {}
                 THEN IF ~active THEN "begin_transaction" ELSE "send_offsets_to_transaction"
                 ELSE IF active THEN "commit_transaction" ELSE "return"
      [] at = "begin_transaction" -> "send_offsets_to_transaction"
      [] at = "send_offsets_to_transaction" ->
             IF active THEN "commit_transaction" ELSE "return"
      [] at = "commit_transaction" -> "return"

\* commit resetting the batch in a finally clause (a variant to test C4 against)
commit_resets_always(raised) == TRUE
\* commit: self.message = None and _init_attrs run only when _commit returned
commit_resets(raised) == ~raised

\* producer: offsets attached to the open transaction, later ones replacing earlier ones
attach(old, new) ==
    new \cup {o \in old : \A n \in new : ~(n.topic = o.topic /\ n.partition = o.partition)}
\* broker: the group's offsets once a transaction holding offsets is committed
commit_offsets(old, offsets) ==
    [tp \in TPs |->
        IF \E o \in offsets : o.topic = tp[1] /\ o.partition = tp[2]
            THEN (CHOOSE o \in offsets : o.topic = tp[1] /\ o.partition = tp[2]).offset
            ELSE old[tp]]

\* ------------------------------------------------------------------- Init
\* __init__ after the configuration is taken: nothing consumed, every partition assigned
\* and at offset 0, no producer transaction
init_state ==
    /\ _batch_time_elapse_start = None
    /\ _batch_offset_starts = EmptyDict
    /\ _batch_offset_ends = EmptyDict
    /\ _messages = <<>>
    /\ _consume_message_count = 0
    /\ message = None_message
    /\ now = 1
    /\ assignment = TPs
    /\ rebalances = 0
    /\ position = [tp \in TPs |-> 0]
    /\ seeks = {}
    /\ committed = [tp \in TPs |-> 0]
    /\ active_transaction = FALSE
    /\ txn_offsets = {}
    /\ op = "init"
    /\ result = "ok"
    /\ consume_multiplier = 1
    /\ polled = FALSE
    /\ calls = <<>>
    /\ polling = 0
    /\ committing = ""
    /\ active_at_commit = FALSE
    /\ first_message_time = 0
    /\ multipliers_used = {}

\* the size of the run
small_world == log_end = LogEnd /\ rebalance_cap = MaxRebalances
deep_world == log_end = DeepLogEnd /\ rebalance_cap = DeepRebalances

\* every configuration: time bound or none, count bound or none, retention or none
Init ==
    /\ small_world
    /\ _consume_max_time_secs \in {0, MaxTimeSecs}
    /\ _consume_max_count \in {0, MaxCount}
    /\ _store_batch_messages \in BOOLEAN
    /\ init_state

\* the configurations without a time bound and without a count bound: every consume call
\* polls, so batches grow to any size and shape
InitUnbounded ==
    /\ small_world
    /\ _consume_max_time_secs = 0
    /\ _consume_max_count = 0
    /\ _store_batch_messages \in BOOLEAN
    /\ init_state

\* the configurations with a count bound
InitCounted ==
    /\ small_world
    /\ _consume_max_time_secs \in {0, MaxTimeSecs}
    /\ _consume_max_count = MaxCount
    /\ _store_batch_messages \in BOOLEAN
    /\ init_state

\* a configuration without a batch window and without retention, in a deep run
InitDeep ==
    /\ deep_world
    /\ _consume_max_time_secs = 0
    /\ _consume_max_count = 0
    /\ _store_batch_messages = FALSE
    /\ init_state

\* _init_attrs forgetting the end offsets
_init_attrs_keeps_ends ==
    /\ _batch_offset_starts' = EmptyDict
    /\ _batch_offset_ends' = _batch_offset_ends
    /\ _messages' = <<>>
    /\ _consume_message_count' = 0
    /\ first_message_time' = 0
    /\ multipliers_used' = {}

\* _init_attrs
_init_attrs ==
    /\ _batch_offset_starts' = EmptyDict
    /\ _batch_offset_ends' = EmptyDict
    /\ _messages' = <<>>
    /\ _consume_message_count' = 0
    /\ first_message_time' = 0
    /\ multipliers_used' = {}

\* ------------------------------------------------------------ client config
\* the client's own defaults, which _make_config overrides
_make_config_defaults ==
    [isolation_level |-> "read_uncommitted", enable_auto_commit |-> TRUE,
     enable_auto_offset_store |-> TRUE]
\* TransactionalConsumer._make_config: the settings that decide what becomes durable
_make_config ==
    [isolation_level |-> "read_committed", enable_auto_commit |-> FALSE,
     enable_auto_offset_store |-> FALSE]

\* the client commits the offset of a delivered message by itself only when it both stores
\* offsets and commits them automatically
auto_commits(conf) == conf.enable_auto_commit /\ conf.enable_auto_offset_store

\* --------------------------------------------------------------- consume
\* TransactionalConsumer._handle_consumed_message, after the base class accepted msg
_handle_consumed_message(msg) ==
    /\ _batch_offset_starts' = _mark_offset_start(_batch_offset_starts, msg)
    /\ _batch_offset_ends' = _mark_offset_end(_batch_offset_ends, msg)
    /\ _consume_message_count' = _consume_message_count + 1
    /\ _messages' = IF _store_batch_messages THEN Append(_messages, msg) ELSE _messages

\* ... with the budget looked at only after the poll
consume_exhausted_polls(m) ==
    /\ polling = 0 /\ committing = ""
    /\ ~_keep_consuming(m)
    /\ polling' = 0 /\ UNCHANGED progress
    /\ _batch_time_elapse_start' = keep_consuming_start(m)
    /\ op' = "consume" /\ result' = "FinishedTransactionBatch"
    /\ consume_multiplier' = m /\ polled' = TRUE /\ calls' = <<>>
    /\ UNCHANGED <<config, world, batch, message, now, client, committed, producer, history>>

\* TransactionalConsumer.consume(timeout, consume_multiplier) when the window is used up
consume_exhausted(m) ==
    /\ polling = 0 /\ committing = ""
    /\ ~_keep_consuming(m)
    /\ polling' = 0 /\ UNCHANGED progress
    /\ _batch_time_elapse_start' = keep_consuming_start(m)
    /\ op' = "consume" /\ result' = "FinishedTransactionBatch"
    /\ consume_multiplier' = m /\ polled' = FALSE /\ calls' = <<>>
    /\ UNCHANGED <<config, world, batch, message, now, client, committed, producer, history>>

\* ... when the window has budget: the budget check stamps the window start time and the
\* call waits in self._consumer.poll(timeout); the clock and the assignment may move
\* before the poll returns
consume_poll(m) ==
    /\ polling = 0 /\ committing = ""
    /\ _keep_consuming(m)
    /\ _batch_time_elapse_start' = keep_consuming_start(m)
    /\ polling' = m /\ UNCHANGED progress
    /\ op' = "consume" /\ result' = "polling"
    /\ consume_multiplier' = m /\ polled' = TRUE /\ calls' = <<>>
    /\ UNCHANGED <<config, world, batch, message, now, client, committed, producer, history>>

\* ... when the poll returns nothing, with the except clause left out: NoMessageError
\* always propagates
consume_no_message_propagates(m) ==
    /\ polling = m
    /\ polling' = 0 /\ UNCHANGED progress
    /\ op' = "consume"
    /\ result' = "NoMessageError"
    /\ consume_multiplier' = m /\ polled' = TRUE /\ calls' = <<>>
    /\ UNCHANGED <<config, world, _batch_time_elapse_start, batch, message, now, client, committed,
                   producer, history>>

\* ... when the poll the call waits in returns nothing within the timeout
consume_no_message(m) ==
    /\ polling = m
    /\ polling' = 0 /\ UNCHANGED progress
    /\ op' = "consume"
    /\ result' = IF _batch_offset_ends # EmptyDict
                     THEN "FinishedTransactionBatch" ELSE "NoMessageError"
    /\ consume_multiplier' = m /\ polled' = TRUE /\ calls' = <<>>
    /\ UNCHANGED <<config, world, _batch_time_elapse_start, batch, message, now, client, committed,
                   producer, history>>

\* ... with the message recorded in the batch before it is validated
consume_message_records_first(m, tp) ==
    /\ polling = m
    /\ polling' = 0 /\ UNCHANGED progress
    /\ tp \in assignment
    /\ position[tp] < log_end
    /\ LET corrupt == <<tp[1], tp[2], position[tp]>> \in CorruptMessages
           msg == Message(tp, position[tp], corrupt) IN
        /\ position' = [position EXCEPT ![tp] = position[tp] + 1]
        /\ message' = msg
        /\ IF corrupt
              THEN /\ result' = "ConsumeMessageError"
                   /\ _handle_consumed_message(msg)
                   /\ UNCHANGED history
              ELSE /\ result' = "ok"
                   /\ _handle_consumed_message(msg)
                   /\ first_message_time' =
                          IF /\ _consume_max_time_secs # 0 /\ _consume_max_count = 0
                             /\ _consume_message_count = 0
                              THEN now ELSE first_message_time
                   /\ multipliers_used' =
                          IF _consume_max_count # 0
                              THEN multipliers_used \cup {m} ELSE multipliers_used
    /\ committed' = IF auto_commits(_make_config)
                         THEN [committed EXCEPT ![tp] = position[tp] + 1] ELSE committed
    /\ op' = "consume"
    /\ consume_multiplier' = m /\ polled' = TRUE /\ calls' = <<>>
    /\ UNCHANGED <<config, world, _batch_time_elapse_start, now, assignment, seeks, rebalances,
                   producer>>

\* ... when the poll the call waits in returns the next message of an assigned partition
consume_message(m, tp) ==
    /\ polling = m
    /\ polling' = 0 /\ UNCHANGED progress
    /\ tp \in assignment
    /\ position[tp] < log_end
    /\ LET corrupt == <<tp[1], tp[2], position[tp]>> \in CorruptMessages
           msg == Message(tp, position[tp], corrupt) IN
        /\ position' = [position EXCEPT ![tp] = position[tp] + 1]
        /\ message' = msg
        /\ IF corrupt
              THEN /\ result' = "ConsumeMessageError"
                   /\ UNCHANGED <<batch, history>>
              ELSE /\ result' = "ok"
                   /\ _handle_consumed_message(msg)
                   /\ first_message_time' =
                          IF /\ _consume_max_time_secs # 0 /\ _consume_max_count = 0
                             /\ _consume_message_count = 0
                              THEN now ELSE first_message_time
                   /\ multipliers_used' =
                          IF _consume_max_count # 0
                              THEN multipliers_used \cup {m} ELSE multipliers_used
    /\ committed' = IF auto_commits(_make_config)
                         THEN [committed EXCEPT ![tp] = position[tp] + 1] ELSE committed
    /\ op' = "consume"
    /\ consume_multiplier' = m /\ polled' = TRUE /\ calls' = <<>>
    /\ UNCHANGED <<config, world, _batch_time_elapse_start, now, assignment, seeks, rebalances,
                   producer>>

\* the multipliers a call is made with: consume_multiplier is read under a count bound only
call_multipliers == IF _consume_max_count # 0 THEN Multipliers ELSE {1}

consume ==
    \E m \in call_multipliers :
        \/ consume_exhausted(m)
        \/ consume_poll(m)
        \/ consume_no_message(m)
        \/ \E tp \in TPs : consume_message(m, tp)

\* ---------------------------------------------------------------- commit
\* producer, broker: the transaction and the group's offsets once the producer call c,
\* made for the offsets handed to _commit, returned
producer_returned(c, offsets) ==
    /\ active_transaction' = CASE c = "begin_transaction" -> active_after_begin
                               [] c = "commit_transaction" -> active_after_commit
                               [] OTHER -> active_transaction
    /\ txn_offsets' = CASE c = "send_offsets_to_transaction" -> attach(txn_offsets, offsets)
                        [] c = "commit_transaction" -> {}
                        [] OTHER -> txn_offsets
    /\ committed' = IF c = "commit_transaction" THEN commit_offsets(committed, txn_offsets)
                                                 ELSE committed

\* commit(producer) moves on after the calls made so far: into the producer call next,
\* where it waits, or, when _commit returned, through self.message = None and _init_attrs
commit_proceeds(next, made, offsets) ==
    IF next = "return"
        THEN /\ committing' = ""
             /\ calls' = made
             /\ result' = "ok"
             /\ IF commit_resets(FALSE)
                   THEN message' = None_message /\ _init_attrs
                   ELSE UNCHANGED <<message, batch, history>>
        ELSE /\ committing' = next
             /\ calls' = Append(made, Call(next, IF next = "send_offsets_to_transaction"
                                                     THEN offsets ELSE {}))
             /\ result' = "waiting"
             /\ UNCHANGED <<message, batch, history>>

\* commit(producer) is called: the offsets are built and _commit runs up to its first
\* producer call
commit_call ==
    /\ polling = 0 /\ committing = ""
    /\ LET offsets == offsets_to_commit
           next == _commit("call", active_transaction, offsets)
       IN  /\ commit_proceeds(next, <<>>, offsets)
           /\ active_at_commit' = (next # "return" /\ active_transaction)
    /\ op' = "commit" /\ consume_multiplier' = 1 /\ polled' = FALSE /\ polling' = 0
    /\ UNCHANGED <<config, world, _batch_time_elapse_start, now, client, committed, producer>>

\* the producer call commit(producer) waits in returns
commit_returned ==
    /\ committing # ""
    /\ LET offsets == offsets_to_commit
       IN  /\ producer_returned(committing, offsets)
           /\ LET next == _commit(committing, active_transaction', offsets)
              IN  /\ commit_proceeds(next, calls, offsets)
                  /\ active_at_commit' = (next # "return" /\ active_at_commit)
    /\ op' = "commit" /\ consume_multiplier' = 1 /\ polled' = FALSE /\ polling' = 0
    /\ UNCHANGED <<config, world, _batch_time_elapse_start, now, client>>

\* the producer call commit(producer) waits in raises: the exception leaves _commit and
\* commit, the transaction staying as the calls that returned left it
commit_raised ==
    /\ committing # ""
    /\ committing' = "" /\ active_at_commit' = FALSE
    /\ calls' = calls
    /\ result' = "TransactionError"
    /\ IF commit_resets(TRUE)
          THEN message' = None_message /\ _init_attrs
          ELSE UNCHANGED <<message, batch, history>>
    /\ op' = "commit" /\ consume_multiplier' = 1 /\ polled' = FALSE /\ polling' = 0
    /\ UNCHANGED <<config, world, _batch_time_elapse_start, now, client, committed, producer>>

commit ==
    \/ commit_call
    \/ commit_returned
    \/ commit_raised

\* --------------------------------------------------- rollback_consumption
\* rollback_consumption aborting the producer's transaction along with the batch
rollback_consumption_aborts ==
    LET assignments == _get_consumer_partition_assignment
        to_seek == {tp \in Tracked(_batch_offset_starts) :
                        tp[2] \in assignments_get(assignments, tp[1])}
    IN  /\ polling = 0 /\ committing = ""
        /\ polling' = 0 /\ UNCHANGED progress
        /\ op' = "rollback_consumption"
        /\ consume_multiplier' = 1 /\ polled' = FALSE /\ calls' = <<>>
        /\ IF to_seek # {} /\ ~getattr_resolves("consumer")
              THEN \* self.consumer raises AttributeError at the first assigned partition
                   /\ result' = "AttributeError"
                   /\ seeks' = {}
                   /\ UNCHANGED <<position, batch, history>>
              ELSE /\ result' = "ok"
                   /\ seeks' = {TopicPartition(tp[1], tp[2], _batch_offset_starts[tp[1]][tp[2]]) :
                                    tp \in to_seek}
                   /\ position' = [tp \in TPs |->
                                      IF tp \in to_seek THEN _batch_offset_starts[tp[1]][tp[2]]
                                                        ELSE position[tp]]
                   /\ _init_attrs
        /\ active_transaction' = FALSE
        /\ txn_offsets' = {}
        /\ UNCHANGED <<config, world, _batch_time_elapse_start, message, now, assignment, rebalances,
                       committed>>

\* rollback_consumption
rollback_consumption ==
    LET assignments == _get_consumer_partition_assignment
        to_seek == {tp \in Tracked(_batch_offset_starts) :
                        tp[2] \in assignments_get(assignments, tp[1])}
    IN  /\ polling = 0 /\ committing = ""
        /\ polling' = 0 /\ UNCHANGED progress
        /\ op' = "rollback_consumption"
        /\ consume_multiplier' = 1 /\ polled' = FALSE /\ calls' = <<>>
        /\ IF to_seek # {} /\ ~getattr_resolves("consumer")
              THEN \* self.consumer raises AttributeError at the first assigned partition
                   /\ result' = "AttributeError"
                   /\ seeks' = {}
                   /\ UNCHANGED <<position, batch, history>>
              ELSE /\ result' = "ok"
                   /\ seeks' = {TopicPartition(tp[1], tp[2], _batch_offset_starts[tp[1]][tp[2]]) :
                                    tp \in to_seek}
                   /\ position' = [tp \in TPs |->
                                      IF tp \in to_seek THEN _batch_offset_starts[tp[1]][tp[2]]
                                                        ELSE position[tp]]
                   /\ _init_attrs
        /\ UNCHANGED <<config, world, _batch_time_elapse_start, message, now, assignment, rebalances,
                       committed, producer>>

\* ------------------------------------------------------------ environment
\* a step of the environment is no call of the consumer
environment ==
    /\ polling' = polling /\ UNCHANGED progress
    /\ op' = "environment" /\ result' = "ok"
    /\ consume_multiplier' = 1 /\ polled' = FALSE
    /\ calls' = IF committing # "" THEN calls ELSE <<>>

\* the wall clock advances; the consumer reads it only under a time bound
tick ==
    /\ _consume_max_time_secs # 0
    /\ now < MaxNow
    /\ now' = now + 1
    /\ environment
    /\ UNCHANGED <<config, world, _batch_time_elapse_start, batch, message, client, committed,
                   producer, history>>

\* a rebalance revokes a partition from this consumer
revoke ==
    \E tp \in assignment :
        /\ rebalances < rebalance_cap
        /\ rebalances' = rebalances + 1
        /\ assignment' = assignment \ {tp}
        /\ environment
        /\ UNCHANGED <<config, world, _batch_time_elapse_start, batch, message, now, position, seeks,
                       committed, producer, history>>

\* a rebalance assigns a partition; reading resumes at the group's committed offset
assign ==
    \E tp \in TPs \ assignment :
        /\ assignment' = assignment \cup {tp}
        /\ position' = [position EXCEPT ![tp] = committed[tp]]
        /\ environment
        /\ UNCHANGED <<config, world, _batch_time_elapse_start, batch, message, now, seeks,
                       rebalances, committed, producer, history>>

\* the caller produces inside a producer transaction, opening it if needed
produce ==
    /\ polling = 0 /\ committing = ""
    /\ ~active_transaction
    /\ active_transaction' = TRUE
    /\ environment
    /\ UNCHANGED <<config, world, _batch_time_elapse_start, batch, message, now, client, committed,
                   txn_offsets, history>>

\* the caller aborts the open producer transaction
abort_transaction ==
    /\ polling = 0 /\ committing = ""
    /\ active_transaction
    /\ active_transaction' = FALSE
    /\ txn_offsets' = {}
    /\ environment
    /\ UNCHANGED <<config, world, _batch_time_elapse_start, batch, message, now, client, committed, history>>

\* the process dies and is started again: a new consumer and a new producer are
\* constructed, the transaction the old producer left open is aborted with everything
\* attached to it, and reading resumes at the group's committed offsets
restart ==
    /\ _batch_time_elapse_start' = None
    /\ message' = None_message
    /\ _init_attrs
    /\ assignment' = TPs
    /\ position' = committed
    /\ seeks' = {}
    /\ active_transaction' = FALSE
    /\ txn_offsets' = {}
    /\ polling' = 0
    /\ committing' = "" /\ active_at_commit' = FALSE
    /\ op' = "restart"
    /\ result' = IF pending_commits /\ active_transaction THEN "uncommitted_lost" ELSE "ok"
    /\ consume_multiplier' = 1 /\ polled' = FALSE /\ calls' = <<>>
    /\ UNCHANGED <<config, world, now, rebalances, committed>>

Next ==
    \/ consume
    \/ commit
    \/ rollback_consumption
    \/ tick
    \/ revoke
    \/ assign
    \/ produce
    \/ abort_transaction

Spec == Init /\ [][Next]_vars

\* without a time bound the clock is never read: the calls, rebalances and the caller's
\* use of the producer
NextUntimed ==
    \/ consume
    \/ commit
    \/ rollback_consumption
    \/ revoke
    \/ assign
    \/ produce
    \/ abort_transaction

SpecUnbounded == InitUnbounded /\ [][NextUntimed]_vars

\* the batch window on its own: the calls and the clock, the assignment staying as it is
\* and the producer being used by commit only
NextWindow ==
    \/ consume
    \/ commit
    \/ rollback_consumption
    \/ tick

SpecWindow == InitCounted /\ [][NextWindow]_vars

\* the batch under rebalances: the calls and the assignment changing between them, with no
\* bound on the batch and the producer being used by commit only
NextBatch ==
    \/ consume
    \/ commit
    \/ rollback_consumption
    \/ revoke
    \/ assign

SpecBatch == InitUnbounded /\ [][NextBatch]_vars

\* the same calls and rebalances in a deep run
SpecDeep == InitDeep /\ [][NextBatch]_vars

\* the process dying between calls: the calls up to commit, the caller producing inside a
\* transaction, and restarts
NextRestart ==
    \/ consume
    \/ commit
    \/ produce
    \/ restart

SpecRestart == InitUnbounded /\ [][NextRestart]_vars

TypeOK ==
    /\ _consume_message_count \in 0 .. (rebalance_cap + 1) * log_end * Cardinality(TPs)
    /\ now \in 1 .. MaxNow
    /\ _batch_time_elapse_start \in 0 .. MaxNow
    /\ polling \in {0} \cup Multipliers
    /\ committing \in {""} \cup ProducerCalls
    /\ polling = 0 \/ committing = ""
    /\ \A tp \in TPs : position[tp] \in 0 .. log_end /\ committed[tp] \in 0 .. log_end
    /\ rebalances \in 0 .. rebalance_cap

\* ================================================================ claims
Finished == "FinishedTransactionBatch"
\* names of the producer calls of a call log, in order
CallNames(cs) == [i \in 1 .. Len(cs) |-> cs[i].call]
\* offsets handed to send_offsets_to_transaction in a call log
SendCalls(cs) == {i \in 1 .. Len(cs) : cs[i].call = "send_offsets_to_transaction"}
SentOffsets(cs) == UNION {cs[i].offsets : i \in SendCalls(cs)}
IsPrefix(p, q) == Len(p) <= Len(q) /\ \A i \in 1 .. Len(p) : p[i] = q[i]

\* C1: a commit that reaches send_offsets_to_transaction (or succeeds) sends exactly one
\* offset for every (topic, partition) with a tracked end offset, equal to that end
\* offset + 1, and sends nothing for any other (topic, partition).
C1_CommitSendsEndPlusOne ==
    [][(op' = "commit" /\ (result' = "ok" \/ SendCalls(calls') # {})) =>
        \A tp \in Topics \X Partitions :
            LET sent == {o \in SentOffsets(calls') : o.topic = tp[1] /\ o.partition = tp[2]}
            IN  IF tp \in Tracked(_batch_offset_ends)
                    THEN /\ Cardinality(sent) = 1
                         /\ \A o \in sent : o.offset = _batch_offset_ends[tp[1]][tp[2]] + 1
                    ELSE sent = {}]_vars

\* C1 witness: a successful commit sent offsets for two partitions, one of them the
\* offset 2 that follows the last message (offset 1) of its partition.
C1_Witness ==
    /\ op = "commit" /\ result = "ok"
    /\ Cardinality(SentOffsets(calls)) = 2
    /\ \E o \in SentOffsets(calls) : o.offset = 2

\* the producer calls commit(producer) is to make, by name
ExpectedCalls(active, tracked) ==
    IF tracked
        THEN (IF active THEN <<>> ELSE <<"begin_transaction">>)
                 \o <<"send_offsets_to_transaction", "commit_transaction">>
        ELSE IF active THEN <<"commit_transaction">> ELSE <<>>

\* C2: the producer calls of commit(producer) come in the fixed order
\* [begin_transaction iff no transaction is active when commit is called]
\* send_offsets_to_transaction, commit_transaction when end offsets are tracked, and are
\* just commit_transaction iff a transaction is active when nothing is tracked; the calls
\* are made one at a time, each after the one before returned, and a commit in which a
\* producer call raises makes a prefix of these calls, ending with the call that raised.
C2_ProducerCallOrder ==
    [][op' = "commit" =>
        LET active == IF committing = "" THEN active_transaction ELSE active_at_commit
            expected == ExpectedCalls(active, Tracked(_batch_offset_ends) # {})
            made == IF committing = "" THEN <<>> ELSE calls
        IN  /\ IsPrefix(CallNames(calls'), expected)
            /\ IsPrefix(made, calls') /\ Len(calls') <= Len(made) + 1
            /\ result' = "ok" => Len(calls') = Len(expected)
            /\ result' = "waiting" =>
                  (Len(calls') = Len(made) + 1 /\ committing' = calls'[Len(calls')].call)
            /\ result' = "TransactionError" =>
                  (calls' = made /\ made # <<>> /\ committing = made[Len(made)].call)
            /\ Cardinality(SendCalls(calls')) <= 1]_vars

\* C2 witness: a successful commit that began a transaction, sent offsets and committed.
C2_Witness ==
    /\ op = "commit" /\ result = "ok"
    /\ CallNames(calls) = <<"begin_transaction", "send_offsets_to_transaction",
                            "commit_transaction">>

\* C3: after every successful commit the whole batch state is empty: no tracked start or
\* end offsets, consumed count 0, window start time unset, no retained messages, no held
\* message, pending_commits false.
C3_CommitResetsAll ==
    (op = "commit" /\ result = "ok") =>
        /\ _batch_offset_starts = EmptyDict
        /\ _batch_offset_ends = EmptyDict
        /\ _consume_message_count = 0
        /\ _batch_time_elapse_start = None
        /\ _messages = <<>>
        /\ message = None_message
        /\ ~pending_commits

\* C4: a commit in which a producer call raises leaves the tracked start and end offsets,
\* the consumed count, the retained messages and the held message as they were when it
\* was called: neither the raise nor anything that happens while the commit waits in a
\* producer call changes them.
C4_FailedCommitKeepsBatch ==
    /\ [][(op' = "commit" /\ result' = "TransactionError") =>
            UNCHANGED <<_batch_offset_starts, _batch_offset_ends, _consume_message_count,
                        _messages, message>>]_vars
    /\ [][(committing # "" /\ ~(op' = "commit" /\ result' = "ok")) =>
            UNCHANGED <<_batch_offset_starts, _batch_offset_ends, _consume_message_count,
                        _messages, message>>]_vars

\* C4 witness: a commit raised while the batch held a message with tracked offsets.
C4_Witness ==
    /\ op = "commit" /\ result = "TransactionError"
    /\ _consume_message_count > 0
    /\ Tracked(_batch_offset_ends) # {}
    /\ message # None_message

\* the seeks rollback_consumption is to issue: the tracked start offset of every tracked
\* (topic, partition) of the current assignment
ExpectedSeeks ==
    {TopicPartition(tp[1], tp[2], _batch_offset_starts[tp[1]][tp[2]]) :
        tp \in Tracked(_batch_offset_starts) \cap assignment}

\* C5: rollback_consumption seeks to the tracked start offset for exactly the tracked
\* (topic, partition) pairs of the current assignment, and issues no other seek.
C5_RollbackSeeksAssigned ==
    [][op' = "rollback_consumption" => seeks' = ExpectedSeeks]_vars

\* C6: after rollback_consumption returns, the tracker and the window are reset (no
\* tracked starts or ends, count 0, window start time unset), the retained messages are
\* discarded and pending_commits is false.
C6_RollbackResetsAll ==
    (op = "rollback_consumption" /\ result = "ok") =>
        /\ _batch_offset_starts = EmptyDict
        /\ _batch_offset_ends = EmptyDict
        /\ _consume_message_count = 0
        /\ _batch_time_elapse_start = None
        /\ _messages = <<>>
        /\ ~pending_commits

\* C7: after rollback_consumption the read position of every partition the batch consumed
\* from, and which is still assigned, is the offset of the first message the batch
\* consumed from it, so that message is the next one delivered.
C7_RollbackRestoresPosition ==
    [][op' = "rollback_consumption" =>
        \A tp \in Tracked(_batch_offset_starts) \cap assignment :
            position'[tp] = _batch_offset_starts[tp[1]][tp[2]]]_vars

\* C8: with a count bound, a consume call with multiplier m made when the consumed count is
\* at least bound * m raises FinishedTransactionBatch without polling, whatever the clock
\* says; and a batch filled with multiplier m only never holds more than bound * m messages.
C8_CountBound ==
    /\ [][(op' = "consume" /\ _consume_max_count # 0
             /\ _consume_message_count >= _consume_max_count * consume_multiplier') =>
            (result' = Finished /\ ~polled' /\ UNCHANGED <<position, batch, message>>)]_vars
    /\ [](\A m \in Multipliers :
            (_consume_max_count # 0 /\ multipliers_used \subseteq {m}) =>
                _consume_message_count <= _consume_max_count * m)

\* C8 witness: with a count bound, a consume call raised FinishedTransactionBatch without
\* polling, the batch holding exactly bound * multiplier messages, at a time at which the
\* time bound had run out as well (the count check comes first and leaves the window
\* start time in place).
C8_Witness ==
    /\ op = "consume" /\ result = Finished /\ ~polled
    /\ _consume_max_count # 0
    /\ _consume_message_count = _consume_max_count * consume_multiplier
    /\ multipliers_used = {consume_multiplier}
    /\ _consume_max_time_secs # 0
    /\ _batch_time_elapse_start # None
    /\ now - _batch_time_elapse_start >= _consume_max_time_secs

\* C9: with a time bound and no count bound, a consume call made at least the bound after
\* the first message of the batch was consumed raises FinishedTransactionBatch without
\* polling and clears the window start time; and the window start time of a batch is the
\* time its own first message was consumed.
C9_TimeBound ==
    /\ [][(op' = "consume" /\ polling = 0
             /\ _consume_max_time_secs # 0 /\ _consume_max_count = 0
             /\ first_message_time # 0
             /\ now - first_message_time >= _consume_max_time_secs) =>
            (result' = Finished /\ ~polled' /\ _batch_time_elapse_start' = None)]_vars
    /\ [][(op' = "consume" /\ result' = "ok" /\ _consume_max_time_secs # 0
             /\ _consume_max_count = 0 /\ first_message_time = 0) =>
            _batch_time_elapse_start' = now]_vars

\* C10: the window start time is unset after every commit or rollback, it is set only by
\* the consume call that consumes the first message of a batch, and a consume call on an
\* empty batch never raises FinishedTransactionBatch.
C10_TimeFromFirstMessage ==
    /\ []((op \in {"commit", "rollback_consumption"} /\ result = "ok") =>
            _batch_time_elapse_start = None)
    /\ [][(_batch_time_elapse_start' # _batch_time_elapse_start
             /\ _batch_time_elapse_start' # None) =>
            (op' = "consume" /\ result' = "ok" /\ _consume_message_count = 0)]_vars
    /\ [](~(op = "consume" /\ result = Finished /\ _consume_message_count = 0))

\* C11: a consume call polls only with budget left in the window, and when its poll
\* returns nothing it raises NoMessageError if the batch has no tracked end offset,
\* FinishedTransactionBatch if it has at least one.
C11_NoMessageOutcome ==
    /\ [][(op' = "consume" /\ polling = 0 /\ polled') =>
            (_keep_consuming(consume_multiplier') /\ polling' = consume_multiplier')]_vars
    /\ [][(op' = "consume" /\ polling # 0 /\ position' = position) =>
            result' = IF Tracked(_batch_offset_ends) = {} THEN "NoMessageError"
                                                         ELSE Finished]_vars

\* C11 witness: a poll that returned nothing ended a batch of one message with
\* FinishedTransactionBatch although the count bound (2 with this multiplier) and the time
\* bound both had budget left.
C11_Witness ==
    /\ op = "consume" /\ polled /\ result = Finished
    /\ _consume_message_count > 0
    /\ _consume_message_count < _consume_max_count * consume_multiplier
    /\ _consume_max_time_secs # 0
    /\ _batch_time_elapse_start # None
    /\ now - _batch_time_elapse_start < _consume_max_time_secs

\* a step that finalizes the batch: a commit or a rollback that returned
Finalized == op \in {"commit", "rollback_consumption"} /\ result = "ok"

\* C12: between two finalize points the start offset of a tracked (topic, partition) is the
\* offset of the first message the batch consumed from it and keeps that value, and in
\* every state the end offset of a tracked (topic, partition) is at least its start offset,
\* whatever calls and rebalances came before.
C12_StartFixedEndAtLeastStart ==
    /\ [][\A tp \in Tracked(_batch_offset_starts) :
            \/ Finalized'
            \/ /\ tp \in Tracked(_batch_offset_starts')
               /\ _batch_offset_starts'[tp[1]][tp[2]] = _batch_offset_starts[tp[1]][tp[2]]]_vars
    /\ [][\A tp \in Tracked(_batch_offset_starts') \ Tracked(_batch_offset_starts) :
            /\ op' = "consume" /\ result' = "ok"
            /\ tp = <<message'.topic, message'.partition>>
            /\ _batch_offset_starts'[tp[1]][tp[2]] = message'.offset]_vars
    /\ [](\A tp \in Tracked(_batch_offset_starts) :
            /\ tp \in Tracked(_batch_offset_ends)
            /\ _batch_offset_ends[tp[1]][tp[2]] >= _batch_offset_starts[tp[1]][tp[2]])

\* a step in which consume returned a message
Consumed == op = "consume" /\ result = "ok"

\* C13: pending_commits is true exactly when at least one message was consumed since
\* construction or the last finalize point: it is false after construction, true after
\* every consume that returns a message, false after every commit or rollback that
\* returns, and no other step changes it.
C13_PendingCommits ==
    /\ [](op = "init" => ~pending_commits)
    /\ [][Consumed' => pending_commits']_vars
    /\ [][Finalized' => ~pending_commits']_vars
    /\ [][(~Consumed' /\ ~Finalized') => (pending_commits' <=> pending_commits)]_vars

\* C13 witness: without retained messages, the first message of a second batch was
\* consumed after a commit advanced the group's offsets, and pending_commits is true again.
C13_Witness ==
    /\ Consumed /\ pending_commits
    /\ ~_store_batch_messages
    /\ _consume_message_count = 1
    /\ \E tp \in TPs : committed[tp] > 0

\* C14: a commit called with no tracked end offset and no active producer transaction
\* makes no producer call, returns, leaves the producer and the group's offsets alone and
\* resets the batch state (tracked offsets, count, retained messages, held message, window
\* start time); a commit called right after such a commit changes nothing at all.
C14_EmptyCommitNoOp ==
    /\ [][(op' = "commit" /\ committing = ""
             /\ Tracked(_batch_offset_ends) = {} /\ ~active_transaction) =>
            /\ calls' = <<>> /\ result' = "ok"
            /\ UNCHANGED <<producer, committed>>
            /\ _batch_offset_starts' = EmptyDict
            /\ _batch_offset_ends' = EmptyDict
            /\ _consume_message_count' = 0
            /\ _messages' = <<>>
            /\ message' = None_message
            /\ _batch_time_elapse_start' = None]_vars
    /\ [][(op = "commit" /\ result = "ok" /\ calls = <<>> /\ op' = "commit") =>
            UNCHANGED vars]_vars

\* C15: the group's committed offsets change only in a commit that returns after the
\* producer committed its transaction; a restart before that leaves the committed offsets
\* as they were, drops the open transaction with the offsets attached to it and puts every
\* read position at the committed offset, a poll delivering the message at the read
\* position: the batch is read again.
C15_DurableOnlyInCommit ==
    /\ [][committed' # committed =>
            /\ op' = "commit" /\ result' = "ok"
            /\ calls' # <<>> /\ calls'[Len(calls')].call = "commit_transaction"]_vars
    /\ [][op' = "restart" =>
            /\ committed' = committed
            /\ position' = committed
            /\ ~active_transaction' /\ txn_offsets' = {}
            /\ ~pending_commits']_vars
    /\ [][(op' = "consume" /\ position' # position) =>
            message'.offset = position[<<message'.topic, message'.partition>>]]_vars

\* C15 witness: the process restarted with a batch consumed and a producer transaction
\* open, after an earlier batch had been committed: every partition is read again from its
\* committed offset, which is behind what the lost batch had read.
C15_Witness ==
    /\ op = "restart" /\ result = "uncommitted_lost"
    /\ position = committed
    /\ \E tp \in TPs : committed[tp] > 0
    /\ \E tp \in TPs : committed[tp] = 0

\* the calls of the consumer
ConsumerCalls == {"consume", "commit", "rollback_consumption"}

\* C16: no call of the consumer aborts a producer transaction: the only producer calls are
\* begin_transaction, send_offsets_to_transaction and commit_transaction, and a transaction
\* that is open before a call is open after it unless a commit committed it;
\* rollback_consumption makes no producer call and leaves the transaction and the offsets
\* attached to it as they were.
C16_NeverAborts ==
    /\ [][op' \in ConsumerCalls =>
            /\ \A i \in 1 .. Len(calls') :
                  calls'[i].call \in {"begin_transaction", "send_offsets_to_transaction",
                                      "commit_transaction"}
            /\ (active_transaction /\ ~active_transaction') =>
                  /\ op' = "commit" /\ result' = "ok"
                  /\ calls'[Len(calls')].call = "commit_transaction"]_vars
    /\ [][op' \in {"consume", "rollback_consumption"} =>
            (calls' = <<>> /\ UNCHANGED <<active_transaction, txn_offsets>>)]_vars

\* C16 witness: rollback_consumption returned while a producer transaction with attached
\* offsets was open, and the transaction is still open with those offsets.
C16_Witness ==
    /\ op = "rollback_consumption" /\ result = "ok"
    /\ active_transaction
    /\ txn_offsets # {}

\* C17: within one batch the tracked end offset of a (topic, partition) never decreases
\* from one step to the next, rebalances that revoke and re-assign the partition included.
C17_EndMonotonic ==
    [][\A tp \in Tracked(_batch_offset_ends) :
          \/ Finalized'
          \/ /\ tp \in Tracked(_batch_offset_ends')
             /\ _batch_offset_ends'[tp[1]][tp[2]] >= _batch_offset_ends[tp[1]][tp[2]]]_vars

\* C18: a consume call that raises NoMessageError or FinishedTransactionBatch leaves the
\* tracked start and end offsets, the count, the retained messages and the held message as
\* they were; and a call made with the count or the time budget used up raises
\* FinishedTransactionBatch without polling the fetch client.
C18_FailedConsumeKeepsBatch ==
    /\ [][(op' = "consume" /\ result' \in {"NoMessageError", Finished}) =>
            UNCHANGED <<_batch_offset_starts, _batch_offset_ends, _consume_message_count,
                        _messages, message>>]_vars
    /\ [][(op' = "consume" /\ polling = 0 /\ ~_keep_consuming(consume_multiplier')) =>
            (result' = Finished /\ ~polled' /\ polling' = 0 /\ position' = position)]_vars

\* C18 witness: a consume call raised FinishedTransactionBatch without polling because the
\* time budget was used up (the count bound had room left), the batch holding a message,
\* its offsets and a retained message.
C18_Witness ==
    /\ op = "consume" /\ result = Finished /\ ~polled
    /\ _consume_message_count > 0
    /\ _consume_message_count < _consume_max_count * consume_multiplier
    /\ Tracked(_batch_offset_starts) # {}
    /\ _messages # <<>>
    /\ message # None_message

\* C19: a consume call whose fetched message is corrupt raises ConsumeMessageError and
\* records nothing: tracked start and end offsets, count and retained messages stay as
\* they were, so no tracked offset, from which commit and rollback_consumption derive what
\* they send and seek, is ever the offset of a corrupt message.
C19_CorruptNotRecorded ==
    /\ [][(op' = "consume" /\ position' # position /\ message'.corrupt) =>
            /\ result' = "ConsumeMessageError"
            /\ UNCHANGED <<_batch_offset_starts, _batch_offset_ends, _consume_message_count,
                           _messages>>]_vars
    /\ [](\A tp \in Tracked(_batch_offset_starts) :
            /\ <<tp[1], tp[2], _batch_offset_starts[tp[1]][tp[2]]>> \notin CorruptMessages
            /\ <<tp[1], tp[2], _batch_offset_ends[tp[1]][tp[2]]>> \notin CorruptMessages)
    /\ [](\A i \in 1 .. Len(_messages) : ~_messages[i].corrupt)

\* C19 witness: consume raised ConsumeMessageError for a corrupt message in the middle of
\* a batch that retains its messages; the batch tracks nothing for the message's partition.
C19_Witness ==
    /\ op = "consume" /\ result = "ConsumeMessageError"
    /\ message.corrupt
    /\ _consume_message_count > 0
    /\ Len(_messages) = _consume_message_count
    /\ <<message.topic, message.partition>> \notin Tracked(_batch_offset_ends)

\* C20: in every state the start map and the end map track the same (topic, partition)
\* pairs (and hold the same topics), that set is non-empty exactly when the consumed count
\* is above 0, and with message retention on the number of retained messages is the count.
C20_BookkeepingConsistent ==
    /\ DOMAIN _batch_offset_starts = DOMAIN _batch_offset_ends
    /\ Tracked(_batch_offset_starts) = Tracked(_batch_offset_ends)
    /\ (Tracked(_batch_offset_starts) # {}) <=> (_consume_message_count > 0)
    /\ (_batch_offset_starts # EmptyDict) <=> (_consume_message_count > 0)
    /\ _store_batch_messages => Len(_messages) = _consume_message_count

\* C20 witness: a retaining batch of three messages read from two partitions, after an
\* earlier batch was committed.
C20_Witness ==
    /\ _store_batch_messages
    /\ _consume_message_count = 3
    /\ Len(_messages) = 3
    /\ Cardinality(Tracked(_batch_offset_ends)) = 2
    /\ \E tp \in TPs : committed[tp] > 0

====
